---- MODULE Spec2Model ----
(***************************************************************************)
(* Model of convert2rhel's bootloader reconfiguration actions              *)
(* (convert2rhel/actions/conversion/set_efi_config.py) run by the action   *)
(* pipeline: five actions over the host's EFI directories, each recording  *)
(* a result (set_result) or a message (add_message).                       *)
(***************************************************************************)
EXTENDS Integers, Sequences, FiniteSets, TLC

\* Largest number of files, other than the three GRUB configuration files,
\* that the source (centos) EFI directory holds at the start.
MaxOtherFiles == 1

\* Largest number of times the discovery action is run on one host.
MaxDiscoveries == 2

----------------------------------------------------------------------------
\* Action ids and declared dependencies

NEW_DEFAULT_EFI_BIN == "NEW_DEFAULT_EFI_BIN"
EFIBOOTMGR_UTILITY_INSTALLED == "EFIBOOTMGR_UTILITY_INSTALLED"
COPY_GRUB_FILES == "COPY_GRUB_FILES"
REMOVE_EFI_CENTOS == "REMOVE_EFI_CENTOS"
REPLACE_EFI_BOOT_ENTRY == "REPLACE_EFI_BOOT_ENTRY"

\* The five actions, in the order the module declares them.
ActionIds ==
    << NEW_DEFAULT_EFI_BIN, EFIBOOTMGR_UTILITY_INSTALLED, COPY_GRUB_FILES,
       REMOVE_EFI_CENTOS, REPLACE_EFI_BOOT_ENTRY >>

ActionIdSet == { ActionIds[i] : i \in 1..Len(ActionIds) }

\* A dependency table in which REMOVE_EFI_CENTOS declares nothing.
dependenciesRemoveUngated(a) ==
    CASE a = EFIBOOTMGR_UTILITY_INSTALLED -> { NEW_DEFAULT_EFI_BIN }
      [] a = REPLACE_EFI_BOOT_ENTRY -> { REMOVE_EFI_CENTOS }
      [] OTHER -> {}

\* A dependency table in which two ids are misplaced: REMOVE_EFI_CENTOS
\* waits for REPLACE_EFI_BOOT_ENTRY, which waits for COPY_GRUB_FILES.
dependenciesMisplaced(a) ==
    CASE a = EFIBOOTMGR_UTILITY_INSTALLED -> { NEW_DEFAULT_EFI_BIN }
      [] a = REMOVE_EFI_CENTOS -> { REPLACE_EFI_BOOT_ENTRY }
      [] a = REPLACE_EFI_BOOT_ENTRY -> { COPY_GRUB_FILES }
      [] OTHER -> {}

\* A dependency table in which COPY_GRUB_FILES also declares the action
\* before it, making one chain of the five.
dependenciesChained(a) ==
    CASE a = EFIBOOTMGR_UTILITY_INSTALLED -> { NEW_DEFAULT_EFI_BIN }
      [] a = COPY_GRUB_FILES -> { EFIBOOTMGR_UTILITY_INSTALLED }
      [] a = REMOVE_EFI_CENTOS -> { COPY_GRUB_FILES }
      [] a = REPLACE_EFI_BOOT_ENTRY -> { REMOVE_EFI_CENTOS }
      [] OTHER -> {}

\* The `dependencies` class attribute of each action (absent: no dependency).
dependencies(a) ==
    CASE a = EFIBOOTMGR_UTILITY_INSTALLED -> { NEW_DEFAULT_EFI_BIN }
      [] a = REMOVE_EFI_CENTOS -> { COPY_GRUB_FILES }
      [] a = REPLACE_EFI_BOOT_ENTRY -> { REMOVE_EFI_CENTOS }
      [] OTHER -> {}

----------------------------------------------------------------------------
\* Paths and the host filesystem

RHEL_EFIDIR_CANONICAL_PATH == "/boot/efi/EFI/redhat"
CENTOS_EFIDIR_CANONICAL_PATH == "/boot/efi/EFI/centos"
SBIN == "/usr/sbin"

\* grub.DEFAULT_INSTALLED_EFIBIN_FILENAMES, in preference order.
DEFAULT_INSTALLED_EFIBIN_FILENAMES == << "shimx64.efi", "grubx64.efi" >>

\* The three GRUB configuration filenames of CopyGrubFiles.
GrubFilenames == << "grubenv", "grub.cfg", "user.cfg" >>

\* os.path.join(directory, filename) and os.path.basename(path): a path is
\* the pair of its directory and its filename.
Join(dir, filename) == << dir, filename >>
Basename(path) == path[2]

EFIBOOTMGR_PATH == Join(SBIN, "efibootmgr")

SeqRange(s) == { s[i] : i \in 1..Len(s) }

CentosPaths == { Join(CENTOS_EFIDIR_CANONICAL_PATH, n) : n \in SeqRange(GrubFilenames) }
RhelGrubPaths == { Join(RHEL_EFIDIR_CANONICAL_PATH, n) : n \in SeqRange(GrubFilenames) }
RhelBinPaths ==
    { Join(RHEL_EFIDIR_CANONICAL_PATH, n) : n \in SeqRange(DEFAULT_INSTALLED_EFIBIN_FILENAMES) }
Paths == CentosPaths \cup RhelGrubPaths \cup RhelBinPaths \cup { EFIBOOTMGR_PATH }

\* What a path holds: nothing, or a file named by where its content was
\* written ("partial": the remains of a copy that failed while writing).
Absent == "absent"
Contents == { Absent, "centos", "redhat", "partial", "present" }

\* Values of systeminfo.system_info.id the model draws from.
SystemIds == { "centos", "CentOS", "oracle" }

NoPath == << >>

VARIABLES
    isEfi,            \* grub.is_efi()
    sysId,            \* systeminfo.system_info.id
    files,            \* Paths -> Contents
    centosDirExists,  \* the source EFI directory exists
    centosOther,      \* number of other files in the source EFI directory
    bootEntry,        \* which entry the firmware boots by default
    report,           \* the Run Report: sequence of outcomes
    invoked,          \* ids whose run() was invoked, in order
    setResults,       \* id -> the set_result() calls of its run(), in order
    messages,         \* id -> the add_message() calls of its run(), in order
    newDefaultEfibin, \* the binary NewDefaultEfiBin resolved, or NoPath
    copyCalls,        \* the shutil.copy2() calls of CopyGrubFiles, in order
    rmdirCalls        \* the os.rmdir() calls of RemoveEfiCentos, in order

hostVars == << isEfi, sysId >>
fsVars == << files, centosDirExists, centosOther >>
vars ==
    << isEfi, sysId, files, centosDirExists, centosOther, bootEntry, report,
       invoked, setResults, messages, newDefaultEfibin, copyCalls, rmdirCalls >>

\* os.path.exists(path)
Exists(fs, path) == fs[path] # Absent

----------------------------------------------------------------------------
\* Results and messages

\* The record set_result(level="ERROR", id=...) stores; `detail` is the list
\* of paths its description or diagnosis joins with ", ".
ErrorResult(id, detail) == [ level |-> "ERROR", id |-> id, detail |-> detail ]

\* The record add_message(level="WARNING", id=...) stores.
WarningMessage(id) == [ level |-> "WARNING", id |-> id ]

----------------------------------------------------------------------------
\* NewDefaultEfiBin.run

\* The for loop over grub.DEFAULT_INSTALLED_EFIBIN_FILENAMES from its i-th
\* filename on: the first existing binary (break), and the paths found
\* missing before it.
\* The loop without its `break`: a later existing binary replaces an
\* earlier one.
RECURSIVE ScanEfiBinsNoBreak(_, _, _)
ScanEfiBinsNoBreak(fs, i, missing_binaries) ==
    IF i > Len(DEFAULT_INSTALLED_EFIBIN_FILENAMES)
    THEN [ efibin |-> NoPath, missing |-> missing_binaries ]
    ELSE LET efi_path == Join(RHEL_EFIDIR_CANONICAL_PATH, DEFAULT_INSTALLED_EFIBIN_FILENAMES[i])
             rest == ScanEfiBinsNoBreak(fs, i + 1,
                         IF Exists(fs, efi_path)
                         THEN missing_binaries
                         ELSE Append(missing_binaries, efi_path))
         IN  IF Exists(fs, efi_path) /\ rest.efibin = NoPath
             THEN [ efibin |-> efi_path, missing |-> rest.missing ]
             ELSE rest

RECURSIVE ScanEfiBins(_, _, _)
ScanEfiBins(fs, i, missing_binaries) ==
    IF i > Len(DEFAULT_INSTALLED_EFIBIN_FILENAMES)
    THEN [ efibin |-> NoPath, missing |-> missing_binaries ]
    ELSE LET efi_path == Join(RHEL_EFIDIR_CANONICAL_PATH, DEFAULT_INSTALLED_EFIBIN_FILENAMES[i])
         IN  IF Exists(fs, efi_path)
             THEN [ efibin |-> efi_path, missing |-> missing_binaries ]
             ELSE ScanEfiBins(fs, i + 1, Append(missing_binaries, efi_path))

\* run() with missing_binaries kept between runs (a list shared by the
\* instances) instead of starting empty.
NewDefaultEfiBinRunSharedList(efi, fs) ==
    IF ~efi
    THEN [ efibin |-> NoPath, results |-> << >> ]
    ELSE LET kept == IF setResults[NEW_DEFAULT_EFI_BIN] = << >>
                     THEN << >>
                     ELSE setResults[NEW_DEFAULT_EFI_BIN][1].detail
             scan == ScanEfiBins(fs, 1, kept)
         IN  [ efibin |-> scan.efibin,
               results |->
                   IF scan.efibin = NoPath
                   THEN << ErrorResult("NOT_FOUND_RHEL_UEFI_BINARIES", scan.missing) >>
                   ELSE << >> ]

NewDefaultEfiBinRun(efi, fs) ==
    IF ~efi
    THEN [ efibin |-> NoPath, results |-> << >> ]
    ELSE LET scan == ScanEfiBins(fs, 1, << >>)
         IN  [ efibin |-> scan.efibin,
               results |->
                   IF scan.efibin = NoPath
                   THEN << ErrorResult("NOT_FOUND_RHEL_UEFI_BINARIES", scan.missing) >>
                   ELSE << >> ]

----------------------------------------------------------------------------
\* EfibootmgrUtilityInstalled.run

EfibootmgrUtilityInstalledRun(fs) ==
    [ results |->
          IF ~Exists(fs, EFIBOOTMGR_PATH)
          THEN << ErrorResult("NOT_INSTALLED_EFIBOOTMGR_UTILITY", << >>) >>
          ELSE << >> ]

----------------------------------------------------------------------------
\* CopyGrubFiles.run

src_files == [ i \in 1..Len(GrubFilenames) |-> Join(CENTOS_EFIDIR_CANONICAL_PATH, GrubFilenames[i]) ]

\* The slice bound of `required = src_files[:2]`.
RequiredCount == 2

\* src_files[:2]
required == SubSeq(src_files, 1, RequiredCount)

\* The error is raised when any required file is missing.
AnySourceExistsByRequired(fs) ==
    \A i \in 1..Len(required) : Exists(fs, required[i])

\* any(os.path.exists(filename) for filename in src_files)
AnySourceExists(fs) ==
    \E i \in 1..Len(src_files) : Exists(fs, src_files[i])

\* [filename for filename in src_files
\*  if filename in required and not os.path.exists(filename)]
MissingFiles(fs) ==
    LET Keep(filename) == filename \in SeqRange(required) /\ ~Exists(fs, filename)
    IN  SelectSeq(src_files, Keep)

\* What the operating system can make of shutil.copy2() when the source
\* exists: the copy, a failure before the destination is created, a failure
\* while the destination is being written.
CopyFaults == { "ok", "fail", "partial" }

\* shutil.copy2(src_file, dst_file) under the fault the system draws: a
\* missing source always fails, before the destination is opened.
Copy2(fs, src_file, dst_file, fault) ==
    LET outcome == IF Exists(fs, src_file) THEN fault ELSE "fail"
    IN  [ outcome |-> outcome,
          fs |-> CASE outcome = "ok" -> [ fs EXCEPT ![dst_file] = fs[src_file] ]
                   [] outcome = "partial" -> [ fs EXCEPT ![dst_file] = "partial" ]
                   [] OTHER -> fs ]

\* The loop body with the check of the destination left out.
CopyOneOverwriting(st, src_file, fault) ==
    LET dst_file == Join(RHEL_EFIDIR_CANONICAL_PATH, Basename(src_file))
        cp == Copy2(st.fs, src_file, dst_file, fault)
    IN  [ fs |-> cp.fs,
          calls |-> Append(st.calls, [ src |-> src_file, dst |-> dst_file, outcome |-> cp.outcome ]),
          results |->
              IF cp.outcome = "ok"
              THEN st.results
              ELSE Append(st.results, ErrorResult("GRUB_FILES_NOT_COPIED_TO_BOOT_DIRECTORY", << >>)) ]

\* One iteration of `for src_file in src_files`: skip an existing
\* destination, else copy; an OSError/IOError records the Error and the loop
\* goes on to the next file.
CopyOne(st, src_file, fault) ==
    LET dst_file == Join(RHEL_EFIDIR_CANONICAL_PATH, Basename(src_file))
        cp == Copy2(st.fs, src_file, dst_file, fault)
    IN  IF Exists(st.fs, dst_file)
        THEN st
        ELSE [ fs |-> cp.fs,
               calls |-> Append(st.calls, [ src |-> src_file, dst |-> dst_file, outcome |-> cp.outcome ]),
               results |->
                   IF cp.outcome = "ok"
                   THEN st.results
                   ELSE Append(st.results,
                               ErrorResult("GRUB_FILES_NOT_COPIED_TO_BOOT_DIRECTORY", << >>)) ]

RECURSIVE CopyLoop(_, _, _)
CopyLoop(st, i, faults) ==
    IF i > Len(src_files)
    THEN st
    ELSE CopyLoop(CopyOne(st, src_files[i], faults[i]), i + 1, faults)

\* run() with the distribution id compared without regard to case.
CopyGrubFilesRunAnyCase(id, fs, faults) ==
    LET st0 == [ fs |-> fs, calls |-> << >>, results |-> << >> ]
    IN  IF id \notin { "centos", "CentOS" }
        THEN st0
        ELSE IF ~AnySourceExists(fs)
        THEN [ st0 EXCEPT !.results =
                 << ErrorResult("UNABLE_TO_FIND_REQUIRED_FILE_FOR_GRUB_CONFIG", MissingFiles(fs)) >> ]
        ELSE CopyLoop(st0, 1, faults)

CopyGrubFilesRun(id, fs, faults) ==
    LET st0 == [ fs |-> fs, calls |-> << >>, results |-> << >> ]
    IN  IF id # "centos"
        THEN st0
        ELSE IF ~AnySourceExists(fs)
        THEN [ st0 EXCEPT !.results =
                 << ErrorResult("UNABLE_TO_FIND_REQUIRED_FILE_FOR_GRUB_CONFIG", MissingFiles(fs)) >> ]
        ELSE CopyLoop(st0, 1, faults)

----------------------------------------------------------------------------
\* RemoveEfiCentos.run

\* The source EFI directory holds a file.
CentosDirNonEmpty(fs, other) ==
    other > 0 \/ \E p \in CentosPaths : Exists(fs, p)

\* A removal that does not require the directory to be empty
\* (shutil.rmtree in place of os.rmdir).
RmdirTree(dirExists, fs, other, ioFault) ==
    CASE ioFault -> "EACCES"
      [] ~dirExists -> "ENOENT"
      [] OTHER -> "ok"

\* os.rmdir(CENTOS_EFIDIR_CANONICAL_PATH): the OSError it raises, or "ok".
Rmdir(dirExists, fs, other, ioFault) ==
    CASE ioFault -> "EACCES"
      [] ~dirExists -> "ENOENT"
      [] CentosDirNonEmpty(fs, other) -> "ENOTEMPTY"
      [] OTHER -> "ok"

\* A failed removal reported with set_result(level="ERROR").
RemovalFailedAsError(err) ==
    [ results |-> << ErrorResult("NOT_REMOVED_CENTOS_UEFI_DIRECTORY", << >>) >>,
      messages |-> << >> ]

\* The except branch: add_message(level="WARNING", ...), no result.
RemovalFailed(err) ==
    [ results |-> << >>,
      messages |-> << WarningMessage("NOT_REMOVED_CENTOS_UEFI_DIRECTORY") >> ]

RemoveEfiCentosRun(id, dirExists, fs, other, ioFault) ==
    LET quiet == [ dirExists |-> dirExists, calls |-> << >>, results |-> << >>, messages |-> << >> ]
        err == Rmdir(dirExists, fs, other, ioFault)
    IN  IF id # "centos"
        THEN quiet
        ELSE IF err = "ok"
        THEN [ quiet EXCEPT !.dirExists = FALSE, !.calls = << err >> ]
        ELSE [ dirExists |-> dirExists,
               calls |-> << err >>,
               results |-> RemovalFailed(err).results,
               messages |-> RemovalFailed(err).messages ]

----------------------------------------------------------------------------
\* ReplaceEfiBootEntry.run

\* grub.replace_efi_boot_entry(): registers the RHEL entry as the default,
\* or raises grub.BootloaderError.
\* run() with the BootloaderError caught and nothing recorded.
ReplaceEfiBootEntryRunSilent(entry, raises) ==
    IF raises
    THEN [ entry |-> entry, results |-> << >> ]
    ELSE [ entry |-> "rhel", results |-> << >> ]

ReplaceEfiBootEntryRun(entry, raises) ==
    IF raises
    THEN [ entry |-> entry,
           results |-> << ErrorResult("FAILED_TO_REPLACE_UEFI_BOOT_ENTRY", << >>) >> ]
    ELSE [ entry |-> "rhel", results |-> << >> ]

----------------------------------------------------------------------------
\* The pipeline executor

\* Every id `a` depends on, directly or through other actions.
RECURSIVE TransitiveDependencies(_)
TransitiveDependencies(a) ==
    dependencies(a) \cup UNION { TransitiveDependencies(d) : d \in dependencies(a) }

\* The execution order: repeatedly the first action, in declaration order,
\* all of whose dependencies are placed.
RECURSIVE ResolveOrder(_)
ResolveOrder(placed) ==
    IF Len(placed) = Len(ActionIds)
    THEN placed
    ELSE LET done == SeqRange(placed)
             ready == { i \in 1..Len(ActionIds) :
                          ActionIds[i] \notin done /\ dependencies(ActionIds[i]) \subseteq done }
             first == CHOOSE i \in ready : \A j \in ready : i <= j
         IN  ResolveOrder(Append(placed, ActionIds[first]))

Order == ResolveOrder(<< >>)

Reported(a) == \E i \in 1..Len(report) : report[i].id = a

\* The Run Report's entry for a reported action.
ReportEntry(a) == report[CHOOSE i \in 1..Len(report) : report[i].id = a]

HasOutcome(a, outcome) == Reported(a) /\ ReportEntry(a).outcome = outcome

\* The transitive dependencies of `a` whose outcome is Error.
FailedDependencies(a) ==
    { d \in TransitiveDependencies(a) : HasOutcome(d, "ERROR") }

\* The pipeline has handled every action.
Done == Len(report) = Len(ActionIds)

\* `a` is the action under the traversal cursor.
IsNext(a) == ~Done /\ Order[Len(report) + 1] = a

\* The outcome of a run(): the last result set, else a Warning when a
\* message was added, else Success.
RunOutcome(a, results, msgs) ==
    [ id |-> a,
      outcome |-> IF results # << >> THEN results[Len(results)].level
                  ELSE IF msgs # << >> THEN "WARNING" ELSE "SUCCESS",
      result |-> IF results # << >> THEN results[Len(results)].id
                 ELSE IF msgs # << >> THEN msgs[Len(msgs)].id ELSE "SUCCESS",
      blockedBy |-> {} ]

\* The executor invokes run() of the action under the cursor, none of whose
\* transitive dependencies failed, and appends its outcome to the report.
Invoke(a, results, msgs) ==
    /\ IsNext(a)
    /\ FailedDependencies(a) = {}
    /\ invoked' = Append(invoked, a)
    /\ setResults' = [ setResults EXCEPT ![a] = results ]
    /\ messages' = [ messages EXCEPT ![a] = msgs ]
    /\ report' = Append(report, RunOutcome(a, results, msgs))

\* The executor prunes the action under the cursor: a transitive dependency
\* recorded an Error, so run() is not invoked.
SkipAction ==
    \E a \in ActionIdSet :
        /\ IsNext(a)
        /\ FailedDependencies(a) # {}
        /\ report' = Append(report,
                            [ id |-> a, outcome |-> "SKIP", result |-> "SKIP",
                              blockedBy |-> FailedDependencies(a) ])
        /\ UNCHANGED << isEfi, sysId, files, centosDirExists, centosOther, bootEntry,
                        invoked, setResults, messages, newDefaultEfibin, copyCalls,
                        rmdirCalls >>

----------------------------------------------------------------------------
\* The actions

RunNewDefaultEfiBin ==
    LET eff == NewDefaultEfiBinRun(isEfi, files)
    IN  /\ Invoke(NEW_DEFAULT_EFI_BIN, eff.results, << >>)
        /\ newDefaultEfibin' = eff.efibin
        /\ UNCHANGED << isEfi, sysId, files, centosDirExists, centosOther, bootEntry,
                        copyCalls, rmdirCalls >>

RunEfibootmgrUtilityInstalled ==
    LET eff == EfibootmgrUtilityInstalledRun(files)
    IN  /\ Invoke(EFIBOOTMGR_UTILITY_INSTALLED, eff.results, << >>)
        /\ UNCHANGED << isEfi, sysId, files, centosDirExists, centosOther, bootEntry,
                        newDefaultEfibin, copyCalls, rmdirCalls >>

RunCopyGrubFiles ==
    \E faults \in [ 1..Len(src_files) -> CopyFaults ] :
        LET eff == CopyGrubFilesRun(sysId, files, faults)
        IN  /\ Invoke(COPY_GRUB_FILES, eff.results, << >>)
            /\ files' = eff.fs
            /\ copyCalls' = copyCalls \o eff.calls
            /\ UNCHANGED << isEfi, sysId, centosDirExists, centosOther, bootEntry,
                            newDefaultEfibin, rmdirCalls >>

RunRemoveEfiCentos ==
    \E ioFault \in BOOLEAN :
        LET eff == RemoveEfiCentosRun(sysId, centosDirExists, files, centosOther, ioFault)
        IN  /\ Invoke(REMOVE_EFI_CENTOS, eff.results, eff.messages)
            /\ centosDirExists' = eff.dirExists
            /\ rmdirCalls' = rmdirCalls \o eff.calls
            /\ UNCHANGED << isEfi, sysId, files, centosOther, bootEntry,
                            newDefaultEfibin, copyCalls >>

RunReplaceEfiBootEntry ==
    \E raises \in BOOLEAN :
        LET eff == ReplaceEfiBootEntryRun(bootEntry, raises)
        IN  /\ Invoke(REPLACE_EFI_BOOT_ENTRY, eff.results, << >>)
            /\ bootEntry' = eff.entry
            /\ UNCHANGED << isEfi, sysId, files, centosDirExists, centosOther,
                            newDefaultEfibin, copyCalls, rmdirCalls >>

\* The host before the conversion: any boot mode, distribution id and
\* content of the two EFI directories; nothing has run.
Init ==
    /\ isEfi \in BOOLEAN
    /\ sysId \in SystemIds
    /\ centosDirExists \in BOOLEAN
    /\ centosOther \in 0..MaxOtherFiles
    /\ \E atSource \in SUBSET CentosPaths, atTarget \in SUBSET RhelGrubPaths,
          bins \in SUBSET RhelBinPaths, utility \in BOOLEAN :
          /\ centosDirExists \/ (atSource = {} /\ centosOther = 0)
          /\ files = [ p \in Paths |->
                         CASE p \in atSource -> "centos"
                           [] p \in atTarget -> "redhat"
                           [] p \in bins -> "present"
                           [] p = EFIBOOTMGR_PATH /\ utility -> "present"
                           [] OTHER -> Absent ]
    /\ bootEntry = "orig"
    /\ report = << >>
    /\ invoked = << >>
    /\ setResults = [ a \in ActionIdSet |-> << >> ]
    /\ messages = [ a \in ActionIdSet |-> << >> ]
    /\ newDefaultEfibin = NoPath
    /\ copyCalls = << >>
    /\ rmdirCalls = << >>

Next ==
    \/ RunNewDefaultEfiBin
    \/ RunEfibootmgrUtilityInstalled
    \/ RunCopyGrubFiles
    \/ RunRemoveEfiCentos
    \/ RunReplaceEfiBootEntry
    \/ SkipAction

Spec == Init /\ [][Next]_vars

\* The executor's loop is sequential and every run() returns: a step that
\* can be taken is taken.
FairSpec == Spec /\ WF_vars(Next)

----------------------------------------------------------------------------
\* The discovery action run repeatedly on one host

\* run() of a new NewDefaultEfiBin instance, outside the pipeline: its
\* result replaces the previous one and its outcome is appended.
RerunNewDefaultEfiBin ==
    LET eff == NewDefaultEfiBinRun(isEfi, files)
    IN  /\ Len(invoked) < MaxDiscoveries
        /\ invoked' = Append(invoked, NEW_DEFAULT_EFI_BIN)
        /\ setResults' = [ setResults EXCEPT ![NEW_DEFAULT_EFI_BIN] = eff.results ]
        /\ report' = Append(report, RunOutcome(NEW_DEFAULT_EFI_BIN, eff.results, << >>))
        /\ newDefaultEfibin' = eff.efibin
        /\ UNCHANGED << isEfi, sysId, files, centosDirExists, centosOther, bootEntry,
                        messages, copyCalls, rmdirCalls >>

DiscoveryNext == RerunNewDefaultEfiBin

DiscoverySpec == Init /\ [][DiscoveryNext]_vars

----------------------------------------------------------------------------
\* Properties

WasInvoked(a) == \E i \in 1..Len(invoked) : invoked[i] = a

\* The set_result() calls of `a` include one with this id.
Recorded(a, id) == \E i \in 1..Len(setResults[a]) : setResults[a][i].id = id

\* The pairs << A, B >> of the five actions where B depends on A, directly
\* or through REMOVE_EFI_CENTOS, as the classes declare.
DeclaredDependents ==
    { << NEW_DEFAULT_EFI_BIN, EFIBOOTMGR_UTILITY_INSTALLED >>,
      << COPY_GRUB_FILES, REMOVE_EFI_CENTOS >>,
      << REMOVE_EFI_CENTOS, REPLACE_EFI_BOOT_ENTRY >>,
      << COPY_GRUB_FILES, REPLACE_EFI_BOOT_ENTRY >> }

\* C1: blocking invariant. For every declared pair A, B with B depending
\* (transitively) on A: once A's outcome is Error, run() of B is never
\* invoked, B is reported only as skipped, and the finished report holds
\* B as skipped.
C1_BlockingInvariant ==
    \A pair \in DeclaredDependents :
        HasOutcome(pair[1], "ERROR") =>
            /\ ~WasInvoked(pair[2])
            /\ Reported(pair[2]) => HasOutcome(pair[2], "SKIP")
            /\ Done => HasOutcome(pair[2], "SKIP")

\* A finished run in which both chains were pruned by an Error at their head.
C1_Witness ==
    /\ Done
    /\ HasOutcome(NEW_DEFAULT_EFI_BIN, "ERROR")
    /\ HasOutcome(EFIBOOTMGR_UTILITY_INSTALLED, "SKIP")
    /\ HasOutcome(COPY_GRUB_FILES, "ERROR")
    /\ HasOutcome(REMOVE_EFI_CENTOS, "SKIP")
    /\ HasOutcome(REPLACE_EFI_BOOT_ENTRY, "SKIP")
    /\ invoked = << NEW_DEFAULT_EFI_BIN, COPY_GRUB_FILES >>

NoCandidateBinary == \A p \in RhelBinPaths : files[p] = Absent

Downstream ==
    { EFIBOOTMGR_UTILITY_INSTALLED, COPY_GRUB_FILES, REMOVE_EFI_CENTOS,
      REPLACE_EFI_BOOT_ENTRY }

\* C2: on an EFI host with no candidate binary in the target EFI directory,
\* NEW_DEFAULT_EFI_BIN records Error NOT_FOUND_RHEL_UEFI_BINARIES and none of
\* the four downstream actions is invoked; the finished report holds all
\* four as skipped.
C2_AllDownstreamSkipped ==
    (isEfi /\ NoCandidateBinary) =>
        /\ WasInvoked(NEW_DEFAULT_EFI_BIN) =>
               Recorded(NEW_DEFAULT_EFI_BIN, "NOT_FOUND_RHEL_UEFI_BINARIES")
        /\ \A a \in Downstream :
               /\ ~WasInvoked(a)
               /\ Done => HasOutcome(a, "SKIP")

\* A copy2() or rmdir() call changed the filesystem.
FilesystemMutated ==
    \/ \E i \in 1..Len(copyCalls) : copyCalls[i].outcome # "fail"
    \/ \E i \in 1..Len(rmdirCalls) : rmdirCalls[i] = "ok"

\* C3: on a BIOS host NEW_DEFAULT_EFI_BIN sets no result, and
\* EFIBOOTMGR_UTILITY_INSTALLED, COPY_GRUB_FILES and REMOVE_EFI_CENTOS
\* record no Error, no Warning and change nothing in the filesystem.
C3_BiosNoOp ==
    ~isEfi =>
        /\ setResults[NEW_DEFAULT_EFI_BIN] = << >>
        /\ \A a \in { EFIBOOTMGR_UTILITY_INSTALLED, COPY_GRUB_FILES, REMOVE_EFI_CENTOS } :
               setResults[a] = << >> /\ messages[a] = << >>
        /\ ~FilesystemMutated

GrubenvPath == Join(CENTOS_EFIDIR_CANONICAL_PATH, "grubenv")
GrubCfgPath == Join(CENTOS_EFIDIR_CANONICAL_PATH, "grub.cfg")
UserCfgPath == Join(CENTOS_EFIDIR_CANONICAL_PATH, "user.cfg")

\* Of the three source files only grubenv exists. (No action writes to the
\* source files, so this is also the state COPY_GRUB_FILES ran in.)
OnlyGrubenvAtSource ==
    /\ files[GrubenvPath] # Absent
    /\ files[GrubCfgPath] = Absent
    /\ files[UserCfgPath] = Absent

\* C4: on a 'centos' host where only grubenv exists at the source,
\* COPY_GRUB_FILES ends with the single Error
\* UNABLE_TO_FIND_REQUIRED_FILE_FOR_GRUB_CONFIG listing exactly grub.cfg.
C4_MissingGrubCfgReported ==
    (sysId = "centos" /\ OnlyGrubenvAtSource /\ WasInvoked(COPY_GRUB_FILES)) =>
        setResults[COPY_GRUB_FILES] =
            << ErrorResult("UNABLE_TO_FIND_REQUIRED_FILE_FOR_GRUB_CONFIG", << GrubCfgPath >>) >>

NoSourceFile == \A p \in { GrubenvPath, GrubCfgPath, UserCfgPath } : files[p] = Absent

\* C5: all-missing detection. On a 'centos' host COPY_GRUB_FILES records
\* UNABLE_TO_FIND_REQUIRED_FILE_FOR_GRUB_CONFIG exactly when none of the
\* three source files exists; it then lists grubenv and grub.cfg (not
\* user.cfg), is the only result, and no copy was attempted.
C5_AllMissingDetection ==
    (sysId = "centos" /\ WasInvoked(COPY_GRUB_FILES)) =>
        /\ Recorded(COPY_GRUB_FILES, "UNABLE_TO_FIND_REQUIRED_FILE_FOR_GRUB_CONFIG")
               <=> NoSourceFile
        /\ NoSourceFile =>
               /\ setResults[COPY_GRUB_FILES] =
                      << ErrorResult("UNABLE_TO_FIND_REQUIRED_FILE_FOR_GRUB_CONFIG",
                                     << GrubenvPath, GrubCfgPath >>) >>
               /\ copyCalls = << >>

\* COPY_GRUB_FILES ran on a 'centos' host with an empty source directory.
C5_Witness ==
    /\ sysId = "centos"
    /\ WasInvoked(COPY_GRUB_FILES)
    /\ NoSourceFile
    /\ Recorded(COPY_GRUB_FILES, "UNABLE_TO_FIND_REQUIRED_FILE_FOR_GRUB_CONFIG")

\* This step is the invocation of run() of `a`.
Invokes(a) == invoked' = Append(invoked, a)

\* C6: copy skip. In the step that runs COPY_GRUB_FILES, every candidate
\* file that exists in the target EFI directory beforehand is the same file
\* afterwards, and no copy2() call of the step (so no I/O Error) has it as
\* destination, whether or not its source exists.
C6_CopySkip ==
    [][ Invokes(COPY_GRUB_FILES) =>
          \A p \in RhelGrubPaths :
              files[p] # Absent =>
                  /\ files'[p] = files[p]
                  /\ \A i \in (Len(copyCalls) + 1)..Len(copyCalls') :
                         copyCalls'[i].dst # p ]_vars

\* COPY_GRUB_FILES ran on a 'centos' host, skipped a file that the target
\* directory already had while its source existed, and copied another.
C6_Witness ==
    /\ sysId = "centos"
    /\ WasInvoked(COPY_GRUB_FILES)
    /\ files[Join(RHEL_EFIDIR_CANONICAL_PATH, "grubenv")] = "redhat"
    /\ files[GrubenvPath] = "centos"
    /\ files[Join(RHEL_EFIDIR_CANONICAL_PATH, "user.cfg")] = "redhat"
    /\ files[UserCfgPath] = Absent
    /\ \E i \in 1..Len(copyCalls) : copyCalls[i].outcome = "ok"

\* C7: in COPY_GRUB_FILES a copy2() call that fails is the last one: no
\* copy of a later candidate file is attempted after an I/O error.
C7_FirstIoFailureEndsLoop ==
    \A i \in 1..Len(copyCalls) :
        copyCalls[i].outcome # "ok" => i = Len(copyCalls)

\* C8: no run() calls set_result(level="ERROR") more than once.
C8_AtMostOneError ==
    \A a \in ActionIdSet :
        Cardinality({ i \in 1..Len(setResults[a]) : setResults[a][i].level = "ERROR" }) <= 1

\* os.rmdir() was called and failed.
RemovalHasFailed == \E i \in 1..Len(rmdirCalls) : rmdirCalls[i] # "ok"

\* C9: non-blocking warning. When REMOVE_EFI_CENTOS fails to remove the
\* source EFI directory it records the Warning
\* NOT_REMOVED_CENTOS_UEFI_DIRECTORY and no result, its outcome is a
\* Warning, and REPLACE_EFI_BOOT_ENTRY is not pruned: it is invocable when
\* the cursor reaches it and a finished run has invoked it.
C9_NonBlockingWarning ==
    RemovalHasFailed =>
        /\ messages[REMOVE_EFI_CENTOS] = << WarningMessage("NOT_REMOVED_CENTOS_UEFI_DIRECTORY") >>
        /\ setResults[REMOVE_EFI_CENTOS] = << >>
        /\ HasOutcome(REMOVE_EFI_CENTOS, "WARNING")
        /\ IsNext(REPLACE_EFI_BOOT_ENTRY) => FailedDependencies(REPLACE_EFI_BOOT_ENTRY) = {}
        /\ ~HasOutcome(REPLACE_EFI_BOOT_ENTRY, "SKIP")
        /\ Done => invoked[Len(invoked)] = REPLACE_EFI_BOOT_ENTRY

\* A finished run in which the source directory was not empty and
\* REPLACE_EFI_BOOT_ENTRY ran after the warning.
C9_Witness ==
    /\ Done
    /\ rmdirCalls = << "ENOTEMPTY" >>
    /\ HasOutcome(REMOVE_EFI_CENTOS, "WARNING")
    /\ WasInvoked(REPLACE_EFI_BOOT_ENTRY)

\* C10: once EFIBOOTMGR_UTILITY_INSTALLED has recorded Error
\* NOT_INSTALLED_EFIBOOTMGR_UTILITY, none of COPY_GRUB_FILES,
\* REMOVE_EFI_CENTOS and REPLACE_EFI_BOOT_ENTRY is invoked.
C10_PrerequisiteStopsDestructiveSteps ==
    Recorded(EFIBOOTMGR_UTILITY_INSTALLED, "NOT_INSTALLED_EFIBOOTMGR_UTILITY") =>
        \A a \in { COPY_GRUB_FILES, REMOVE_EFI_CENTOS, REPLACE_EFI_BOOT_ENTRY } :
            ~WasInvoked(a)

\* The position of `a` in the Run Report.
ReportIndex(a) == CHOOSE i \in 1..Len(report) : report[i].id = a

\* `longer` is `shorter` or `shorter` with one entry appended.
GrowsByAppend(shorter, longer) ==
    \/ longer = shorter
    \/ /\ Len(longer) = Len(shorter) + 1
       /\ SubSeq(longer, 1, Len(shorter)) = shorter

\* C11: every pipeline run terminates; the finished Run Report holds each
\* of the five ids exactly once, each after the ids it declares as
\* dependencies; the report only grows by appending; and a step invokes at
\* most one run(), whose outcome it appends before the next one starts.
C11_TerminatesWithFullReport ==
    /\ <>Done
    /\ [](Done =>
            /\ \A a \in ActionIdSet :
                   Cardinality({ i \in 1..Len(report) : report[i].id = a }) = 1
            /\ ReportIndex(NEW_DEFAULT_EFI_BIN) < ReportIndex(EFIBOOTMGR_UTILITY_INSTALLED)
            /\ ReportIndex(COPY_GRUB_FILES) < ReportIndex(REMOVE_EFI_CENTOS)
            /\ ReportIndex(REMOVE_EFI_CENTOS) < ReportIndex(REPLACE_EFI_BOOT_ENTRY))
    /\ [][ /\ GrowsByAppend(report, report')
           /\ GrowsByAppend(invoked, invoked')
           /\ invoked' # invoked =>
                  /\ Len(report') = Len(report) + 1
                  /\ report'[Len(report')].id = invoked'[Len(invoked')]
                  /\ report'[Len(report')].outcome # "SKIP" ]_vars

\* A finished run in which some actions ran and one was skipped.
C11_Witness ==
    /\ Done
    /\ Len(invoked) = Len(ActionIds) - 1
    /\ HasOutcome(EFIBOOTMGR_UTILITY_INSTALLED, "SKIP")

\* The ids each action depends on, directly or through other actions, as
\* the classes declare.
DeclaredAncestors(a) ==
    CASE a = EFIBOOTMGR_UTILITY_INSTALLED -> { NEW_DEFAULT_EFI_BIN }
      [] a = REMOVE_EFI_CENTOS -> { COPY_GRUB_FILES }
      [] a = REPLACE_EFI_BOOT_ENTRY -> { COPY_GRUB_FILES, REMOVE_EFI_CENTOS }
      [] OTHER -> {}

\* C12: an Error prunes only transitive dependents. An action is reported
\* as skipped only when one of its declared ancestors has outcome Error;
\* otherwise, when the cursor reaches it, it is invocable, and a finished
\* run has invoked it, whatever Errors the other chain recorded.
C12_OnlyDependentsPruned ==
    \A a \in ActionIdSet :
        LET blocked == \E d \in DeclaredAncestors(a) : HasOutcome(d, "ERROR")
        IN  /\ HasOutcome(a, "SKIP") => blocked
            /\ (IsNext(a) /\ ~blocked) => FailedDependencies(a) = {}
            /\ (Done /\ ~blocked) => WasInvoked(a)

\* A finished run in which the first chain failed and the whole second
\* chain ran.
C12_Witness ==
    /\ Done
    /\ HasOutcome(NEW_DEFAULT_EFI_BIN, "ERROR")
    /\ HasOutcome(EFIBOOTMGR_UTILITY_INSTALLED, "SKIP")
    /\ WasInvoked(COPY_GRUB_FILES)
    /\ WasInvoked(REMOVE_EFI_CENTOS)
    /\ WasInvoked(REPLACE_EFI_BOOT_ENTRY)

ShimPath == Join(RHEL_EFIDIR_CANONICAL_PATH, "shimx64.efi")
GrubBinaryPath == Join(RHEL_EFIDIR_CANONICAL_PATH, "grubx64.efi")

\* C14: first match wins. On an EFI host, after NEW_DEFAULT_EFI_BIN ran:
\* with shimx64.efi present it resolved shimx64.efi and set no result; with
\* only grubx64.efi present it resolved grubx64.efi and set no result; it
\* recorded NOT_FOUND_RHEL_UEFI_BINARIES exactly when neither exists, and
\* then lists both full paths in preference order and resolved nothing.
C14_FirstMatchWins ==
    (isEfi /\ WasInvoked(NEW_DEFAULT_EFI_BIN)) =>
        /\ files[ShimPath] # Absent =>
               newDefaultEfibin = ShimPath /\ setResults[NEW_DEFAULT_EFI_BIN] = << >>
        /\ (files[ShimPath] = Absent /\ files[GrubBinaryPath] # Absent) =>
               newDefaultEfibin = GrubBinaryPath /\ setResults[NEW_DEFAULT_EFI_BIN] = << >>
        /\ Recorded(NEW_DEFAULT_EFI_BIN, "NOT_FOUND_RHEL_UEFI_BINARIES")
               <=> (files[ShimPath] = Absent /\ files[GrubBinaryPath] = Absent)
        /\ (files[ShimPath] = Absent /\ files[GrubBinaryPath] = Absent) =>
               /\ newDefaultEfibin = NoPath
               /\ setResults[NEW_DEFAULT_EFI_BIN] =
                      << ErrorResult("NOT_FOUND_RHEL_UEFI_BINARIES",
                                     << ShimPath, GrubBinaryPath >>) >>

\* The discovery ran on an EFI host that has both candidates and chose the
\* preferred one.
C14_Witness ==
    /\ isEfi
    /\ WasInvoked(NEW_DEFAULT_EFI_BIN)
    /\ files[ShimPath] # Absent
    /\ files[GrubBinaryPath] # Absent
    /\ newDefaultEfibin = ShimPath

\* Both required files exist at the source; the optional user.cfg exists
\* neither at the source nor in the target directory.
OnlyUserCfgMissing ==
    /\ files[GrubenvPath] # Absent
    /\ files[GrubCfgPath] # Absent
    /\ files[UserCfgPath] = Absent
    /\ files[Join(RHEL_EFIDIR_CANONICAL_PATH, "user.cfg")] = Absent

\* C15: on a 'centos' host with both required files at the source and
\* user.cfg absent, COPY_GRUB_FILES calls copy2() only for files that exist
\* at the source and, when none of these copies fails, records no Error and
\* ends in Success.
C15_OptionalFileNotCopied ==
    (sysId = "centos" /\ OnlyUserCfgMissing /\ WasInvoked(COPY_GRUB_FILES)) =>
        /\ \A i \in 1..Len(copyCalls) : files[copyCalls[i].src] # Absent
        /\ (\A i \in 1..Len(copyCalls) :
                files[copyCalls[i].src] # Absent => copyCalls[i].outcome = "ok") =>
               /\ setResults[COPY_GRUB_FILES] = << >>
               /\ HasOutcome(COPY_GRUB_FILES, "SUCCESS")

\* C16: source-distribution guard. When the distribution id is not exactly
\* 'centos', the step that runs COPY_GRUB_FILES or REMOVE_EFI_CENTOS leaves
\* the filesystem unchanged, makes no copy2() or rmdir() call, records no
\* result and no message, and reports Success.
C16_NotCentosNoOp ==
    [][ \A a \in { COPY_GRUB_FILES, REMOVE_EFI_CENTOS } :
          (sysId # "centos" /\ Invokes(a)) =>
              /\ files' = files
              /\ centosDirExists' = centosDirExists
              /\ centosOther' = centosOther
              /\ copyCalls' = copyCalls
              /\ rmdirCalls' = rmdirCalls
              /\ setResults'[a] = << >>
              /\ messages'[a] = << >>
              /\ report'[Len(report')].outcome = "SUCCESS" ]_vars

\* Both actions ran on a host whose id differs from 'centos' only by case,
\* with a file to copy.
C16_Witness ==
    /\ sysId = "CentOS"
    /\ WasInvoked(COPY_GRUB_FILES)
    /\ WasInvoked(REMOVE_EFI_CENTOS)
    /\ files[GrubenvPath] = "centos"
    /\ files[Join(RHEL_EFIDIR_CANONICAL_PATH, "grubenv")] = Absent

\* C17: after COPY_GRUB_FILES succeeded on a 'centos' host whose source EFI
\* directory holds nothing but GRUB configuration files, REMOVE_EFI_CENTOS
\* (its rmdir() not hit by a permission error) finds the directory empty,
\* removes it and adds no Warning.
C17_EmptiedDirectoryRemoved ==
    ( /\ sysId = "centos"
      /\ centosOther = 0
      /\ HasOutcome(COPY_GRUB_FILES, "SUCCESS")
      /\ WasInvoked(REMOVE_EFI_CENTOS)
      /\ rmdirCalls # << "EACCES" >> ) =>
        /\ rmdirCalls = << "ok" >>
        /\ ~centosDirExists
        /\ messages[REMOVE_EFI_CENTOS] = << >>

\* C18: after REPLACE_EFI_BOOT_ENTRY ran, it has recorded Error
\* FAILED_TO_REPLACE_UEFI_BOOT_ENTRY (once, as its only result) exactly when
\* the replacement procedure raised instead of registering the RHEL entry;
\* when the procedure returned, the action recorded no result and no
\* message and its outcome is Success.
C18_ReplaceErrorIffRaised ==
    WasInvoked(REPLACE_EFI_BOOT_ENTRY) =>
        /\ Recorded(REPLACE_EFI_BOOT_ENTRY, "FAILED_TO_REPLACE_UEFI_BOOT_ENTRY")
               <=> bootEntry # "rhel"
        /\ bootEntry # "rhel" =>
               setResults[REPLACE_EFI_BOOT_ENTRY] =
                   << ErrorResult("FAILED_TO_REPLACE_UEFI_BOOT_ENTRY", << >>) >>
        /\ bootEntry = "rhel" =>
               /\ setResults[REPLACE_EFI_BOOT_ENTRY] = << >>
               /\ messages[REPLACE_EFI_BOOT_ENTRY] = << >>
               /\ HasOutcome(REPLACE_EFI_BOOT_ENTRY, "SUCCESS")

\* The replacement procedure raised and the action recorded the Error.
C18_Witness ==
    /\ WasInvoked(REPLACE_EFI_BOOT_ENTRY)
    /\ bootEntry = "orig"
    /\ HasOutcome(REPLACE_EFI_BOOT_ENTRY, "ERROR")

\* The source file a target GRUB configuration path is copied from.
SourceOf(p) == Join(CENTOS_EFIDIR_CANONICAL_PATH, Basename(p))

\* A step leaves every existing file as it is, leaves the other files of
\* the source directory alone, and removes the source directory only when
\* it is empty.
NothingDestroyed ==
    /\ \A p \in Paths : files[p] # Absent => files'[p] = files[p]
    /\ centosOther' = centosOther
    /\ centosDirExists' # centosDirExists =>
           /\ centosDirExists
           /\ centosOther = 0
           /\ \A p \in CentosPaths : files[p] = Absent

\* C19 (as stated): no step deletes or overwrites an existing file; a step
\* changes the filesystem only by creating, in the target directory, a
\* candidate-named file that was absent there, with the content of its
\* source file, or by removing the source EFI directory when it is empty.
C19_NoFileDestroyed ==
    [][ /\ NothingDestroyed
        /\ \A p \in Paths :
               files'[p] # files[p] =>
                   /\ p \in RhelGrubPaths
                   /\ files[SourceOf(p)] # Absent
                   /\ files'[p] = files[SourceOf(p)] ]_vars

\* C19 (amended): as above, except that a file created in the target
\* directory holds the content of its source file or, when the copy failed
\* while writing, a partial copy of it.
C19_NoFileDestroyedPartialAllowed ==
    [][ /\ NothingDestroyed
        /\ \A p \in Paths :
               files'[p] # files[p] =>
                   /\ p \in RhelGrubPaths
                   /\ files[SourceOf(p)] # Absent
                   /\ files'[p] \in { files[SourceOf(p)], "partial" } ]_vars

\* COPY_GRUB_FILES created grubenv from its source, left a partial grub.cfg
\* behind a failed copy, and kept the user.cfg the target already had.
C19_Witness ==
    /\ WasInvoked(COPY_GRUB_FILES)
    /\ files[Join(RHEL_EFIDIR_CANONICAL_PATH, "grubenv")] = "centos"
    /\ files[Join(RHEL_EFIDIR_CANONICAL_PATH, "grub.cfg")] = "partial"
    /\ files[Join(RHEL_EFIDIR_CANONICAL_PATH, "user.cfg")] = "redhat"
    /\ files[UserCfgPath] = "centos"

====
